---- MODULE Spec2Model ----
(***************************************************************************)
(* A model of update_contributions.py: the paginated search fetch          *)
(* (get_all_pages), the per-year collector (fetch_contributions), the      *)
(* quarter grouping (group_contributions_by_quarter), the report writer    *)
(* (write_markdown_files) and the top-level handler (main).                *)
(*                                                                         *)
(* Python strings whose characters the code inspects (timestamps, quarter  *)
(* keys, descriptions) are sequences of one-character strings.  Python's   *)
(* None and "" are both the empty sequence: the code only ever tests their *)
(* truthiness (`or`, `not`).  Strings the code only copies (titles, urls,  *)
(* repository names) are TLA+ strings.                                     *)
(***************************************************************************)
EXTENDS Integers, Sequences, FiniteSets, TLC

(* ------------------------------ bounds -------------------------------- *)

\* Years fetched after SINCE_YEAR: current_year is at most SINCE_YEAR + MaxSpan.
MaxSpan == 1
\* Pages a search query has at most.
MaxPages == 2
\* Items one search page holds at most.
MaxPerPage == 1
\* Records in an input of the grouping or of the writer.
MaxRecords == 2
\* Characters a raw description exceeds the truncation limit by, at most.
MaxOver == 2

(* -------------------------- program constants -------------------------- *)

SINCE_YEAR == 2019
\* len(description) > 100, description[:100]
DescLimit == 100
\* response.status_code == 403
RateLimited == 403
\* pr_details.status_code == 200
StatusOK == 200

\* The keys of the contributions dict, in insertion order.
Categories == <<"pullRequests", "issues", "triagedIssues", "reviewedPrs">>

\* The sections dict of write_markdown_files, in insertion order.
Sections ==
  << [section |-> "pullRequests", title |-> "Pull Requests"],
     [section |-> "issues", title |-> "Issues"],
     [section |-> "triagedIssues", title |-> "Triaged Issues"],
     [section |-> "reviewedPrs", title |-> "Reviewed PRs"] >>

\* The timestamp key each category's record carries.
DateField(type_name) ==
  CASE type_name = "pullRequests" -> "merged_at"
    [] type_name = "issues" -> "created_at"
    [] type_name = "reviewedPrs" -> "reviewed_at"
    [] type_name = "triagedIssues" -> "triaged_at"

(* ------------------------------- text ---------------------------------- *)

None == << >>

\* Python truthiness of a str-or-None value.
Truthy(s) == s # << >>

\* a or b
Or(a, b) == IF Truthy(a) THEN a ELSE b

DigitChars == <<"0", "1", "2", "3", "4", "5", "6", "7", "8", "9">>

DigitChar(d) == DigitChars[d + 1]

IsDigit(c) == \E d \in 0..9 : DigitChars[d + 1] = c

DigitVal(c) == CHOOSE d \in 0..9 : DigitChars[d + 1] = c

AllDigits(s) == \A i \in 1..Len(s) : IsDigit(s[i])

RECURSIVE Num(_)
\* int(s) for a string of decimal digits.
Num(s) ==
  IF s = << >> THEN 0
  ELSE 10 * Num(SubSeq(s, 1, Len(s) - 1)) + DigitVal(s[Len(s)])

RECURSIVE IntToStr(_)
\* f"{n}" for n >= 0: decimal, no padding.
IntToStr(n) ==
  IF n < 10 THEN <<DigitChar(n)>>
  ELSE IntToStr(n \div 10) \o <<DigitChar(n % 10)>>

\* %m, %d, %H, %M, %S of strftime: two digits, zero padded.
Pad2(n) == <<DigitChar((n \div 10) % 10), DigitChar(n % 10)>>

\* %Y of strftime for a four-digit year.
Pad4(n) == Pad2(n \div 100) \o Pad2(n % 100)

\* The API's ISO-8601 timestamp of a date-time, as the JSON payload carries it.
IsoTimestamp(y, mo, d, h, mi, s) ==
  Pad4(y) \o <<"-">> \o Pad2(mo) \o <<"-">> \o Pad2(d) \o <<"T">> \o
  Pad2(h) \o <<":">> \o Pad2(mi) \o <<":">> \o Pad2(s) \o <<"Z">>

IsLeap(y) == (y % 4 = 0 /\ y % 100 # 0) \/ y % 400 = 0

DaysInMonth(y, mo) ==
  IF mo = 2 THEN (IF IsLeap(y) THEN 29 ELSE 28)
  ELSE IF mo \in {4, 6, 9, 11} THEN 30 ELSE 31

\* The field of s that starts at `from` and is `width` characters long.
Field(s, from, width) == SubSeq(s, from, from + width - 1)

\* A numeric directive of strptime (%m, %d, %H, %M, %S): one or two digits
\* whose value is in lo..hi.
FieldOK(f, lo, hi) ==
  /\ f # << >>
  /\ AllDigits(f)
  /\ Num(f) >= lo
  /\ Num(f) <= hi

\* The layouts "%Y-%m-%dT%H:%M:%SZ" matches s with: w[i] is the width (1 or 2)
\* of the month, day, hour, minute and second fields.  strptime matches the
\* format's letters without regard to case, takes a day padded with a space,
\* and datetime refuses a second above 59.
Layouts(s) ==
  { w \in [1..5 -> {1, 2}] :
      LET pm == 6
          pd == pm + w[1] + 1
          ph == pd + w[2] + 1
          pi == ph + w[3] + 1
          ps == pi + w[4] + 1
          pz == ps + w[5]
      IN  /\ Len(s) = pz
          /\ AllDigits(Field(s, 1, 4))
          /\ s[5] = "-"
          /\ s[pd - 1] = "-"
          /\ s[ph - 1] \in {"T", "t"}
          /\ s[pi - 1] = ":"
          /\ s[ps - 1] = ":"
          /\ s[pz] \in {"Z", "z"}
          /\ FieldOK(Field(s, pm, w[1]), 1, 12)
          /\ \/ FieldOK(Field(s, pd, w[2]), 1, 31)
             \/ /\ w[2] = 2
                /\ s[pd] = " "
                /\ FieldOK(Field(s, pd + 1, 1), 1, 9)
          /\ FieldOK(Field(s, ph, w[3]), 0, 23)
          /\ FieldOK(Field(s, pi, w[4]), 0, 59)
          /\ FieldOK(Field(s, ps, w[5]), 0, 59) }

\* datetime.datetime.strptime(s, "%Y-%m-%dT%H:%M:%SZ"): ok is FALSE where
\* Python raises (no match of the format, or no such calendar date).
Strptime(s) ==
  IF Layouts(s) = {} THEN [ok |-> FALSE, year |-> 0, month |-> 0, day |-> 0]
  ELSE
    LET w == CHOOSE x \in Layouts(s) : TRUE
        y == Num(Field(s, 1, 4))
        mo == Num(Field(s, 6, w[1]))
        df == Field(s, 7 + w[1], w[2])
        d == IF df[1] = " " THEN Num(Tail(df)) ELSE Num(df)
    IN  IF y >= 1 /\ d <= DaysInMonth(y, mo)
        THEN [ok |-> TRUE, year |-> y, month |-> mo, day |-> d]
        ELSE [ok |-> FALSE, year |-> 0, month |-> 0, day |-> 0]

\* date_obj.strftime("%Y-%m-%d")
FormatDate(date_obj) ==
  Pad4(date_obj.year) \o <<"-">> \o Pad2(date_obj.month) \o <<"-">> \o
  Pad2(date_obj.day)

\* item.get("merged_at") or item.get("created_at") or item.get("reviewed_at")
\* or item.get("triaged_at")
DateStr(item) ==
  Or(item.merged_at, Or(item.created_at, Or(item.reviewed_at, item.triaged_at)))

QuarterOfMut(month) == month \div 3 + 1

\* (month - 1) // 3 + 1
QuarterOf(month) == (month - 1) \div 3 + 1

\* f"{year}-{quarter}" with quarter = f"Q{...}"
QuarterKey(year, month) ==
  IntToStr(year) \o <<"-", "Q">> \o IntToStr(QuarterOf(month))

RECURSIVE Split(_, _)
\* s.split(sep) for a one-character separator.
Split(s, sep) ==
  IF \A i \in 1..Len(s) : s[i] # sep THEN <<s>>
  ELSE
    LET i == CHOOSE k \in 1..Len(s) :
               s[k] = sep /\ \A j \in 1..(k - 1) : s[j] # sep
    IN  <<SubSeq(s, 1, i - 1)>> \o Split(SubSeq(s, i + 1, Len(s)), sep)

(* ------------------- group_contributions_by_quarter -------------------- *)

\* The value of a fresh bucket: grouped[key] = {"pullRequests": [], ...}
EmptyBucket ==
  [pullRequests |-> << >>, issues |-> << >>, triagedIssues |-> << >>,
   reviewedPrs |-> << >>]

\* key in grouped, for the insertion-ordered dict grouped (a sequence of
\* [key, data] entries with distinct keys).
HasKey(grouped, key) == \E i \in 1..Len(grouped) : grouped[i].key = key

IndexOf(grouped, key) == CHOOSE i \in 1..Len(grouped) : grouped[i].key = key

PutMut(grouped, key, type_name, item) ==
  IF HasKey(grouped, key)
  THEN [grouped EXCEPT ![IndexOf(grouped, key)].data[type_name] = Append(@, item)]
  ELSE Append(grouped, [key |-> key, data |-> EmptyBucket])

\* if key not in grouped: grouped[key] = {...}; grouped[key][type_name].append(item)
Put(grouped, key, type_name, item) ==
  LET g == IF HasKey(grouped, key) THEN grouped
           ELSE Append(grouped, [key |-> key, data |-> EmptyBucket])
      i == IndexOf(g, key)
  IN  [g EXCEPT ![i].data[type_name] = Append(@, item)]

HasNoDateMut(date_str) == FALSE

\* if not date_str: continue
HasNoDate(date_str) == ~Truthy(date_str)

RECURSIVE Pairs(_, _)
\* The (type_name, item) pairs in the order the two nested loops visit them.
Pairs(contributions, c) ==
  IF c > Len(Categories) THEN << >>
  ELSE [i \in 1..Len(contributions[Categories[c]]) |->
          [type_name |-> Categories[c], item |-> contributions[Categories[c]][i]]]
       \o Pairs(contributions, c + 1)

RECURSIVE GroupFrom(_, _)
\* The loop body for each pair in turn.  raised: strptime raised ValueError,
\* which nothing in the function catches.
GroupFrom(pairs, grouped) ==
  IF pairs = << >> THEN [raised |-> FALSE, grouped |-> grouped]
  ELSE
    LET item == Head(pairs).item
        date_str == DateStr(item)
    IN  IF HasNoDate(date_str) THEN GroupFrom(Tail(pairs), grouped)
        ELSE
          LET date_obj == Strptime(date_str)
          IN  IF ~date_obj.ok THEN [raised |-> TRUE, grouped |-> grouped]
              ELSE GroupFrom(Tail(pairs),
                             Put(grouped,
                                 QuarterKey(date_obj.year, date_obj.month),
                                 Head(pairs).type_name, item))

group_contributions_by_quarter(contributions) ==
  GroupFrom(Pairs(contributions, 1), << >>)

(* ------------------------- write_markdown_files ------------------------ *)

Ellipsis == <<".", ".", ".">>

\* description.replace("\n", " ")
ReplaceNewlines(s) == [i \in 1..Len(s) |-> IF s[i] = "\n" THEN " " ELSE s[i]]

TruncateMut(description) ==
  IF Len(description) >= DescLimit
  THEN SubSeq(description, 1, DescLimit) \o Ellipsis
  ELSE description

\* if len(description) > 100: description = description[:100] + "..."
Truncate(description) ==
  IF Len(description) > DescLimit
  THEN SubSeq(description, 1, DescLimit) \o Ellipsis
  ELSE description

\* The description cell of a table row.
RenderDescription(raw) == Truncate(ReplaceNewlines(raw))

\* One line of markdown_content.
Line(kind, cells) == [kind |-> kind, cells |-> cells]

\* The table row of an item whose timestamp parsed to date_obj; raised where
\* strptime raised.
RowOf(item, date_obj) ==
  IF ~date_obj.ok THEN [raised |-> TRUE, line |-> Line("row", << >>)]
  ELSE [raised |-> FALSE,
        line |-> Line("row", <<item.repo, item.title, item.url,
                               RenderDescription(item.description),
                               FormatDate(date_obj)>>)]

\* Lines 183-191 for one item.
RenderRow(item) == RowOf(item, Strptime(DateStr(item)))

\* markdown_content += row, unless an earlier statement raised.
AddRow(doc, row) ==
  IF doc.raised \/ row.raised THEN [raised |-> TRUE, lines |-> << >>]
  ELSE [raised |-> FALSE, lines |-> Append(doc.lines, row.line)]

RECURSIVE RenderRows(_, _)
\* for item in items
RenderRows(items, doc) ==
  IF items = << >> THEN doc
  ELSE RenderRows(Tail(items), AddRow(doc, RenderRow(Head(items))))

\* The lines one section adds to markdown_content.
RenderSection(sec, items) ==
  IF items = << >>
  THEN [raised |-> FALSE,
        lines |-> <<Line("h2", <<sec.title>>), Line("placeholder", << >>)>>]
  ELSE RenderRows(items,
                  [raised |-> FALSE,
                   lines |-> <<Line("h2", <<sec.title>>), Line("thead", << >>),
                               Line("tsep", << >>)>>])

\* for section, title in sections.items()
SectionOrder == Sections

\* markdown_content += the section, unless an earlier statement raised.
AddSection(doc, sec) ==
  IF doc.raised \/ sec.raised THEN [raised |-> TRUE, lines |-> << >>]
  ELSE [raised |-> FALSE, lines |-> doc.lines \o sec.lines]

RECURSIVE RenderSections(_, _, _)
RenderSections(data, k, doc) ==
  IF k > Len(SectionOrder) THEN doc
  ELSE RenderSections(data, k + 1,
         AddSection(doc, RenderSection(SectionOrder[k],
                                       data[SectionOrder[k].section])))

\* markdown_content of one bucket.
RenderBucket(quarter, year, data) ==
  RenderSections(data, 1,
                 [raised |-> FALSE, lines |-> <<Line("h1", <<quarter, year>>)>>])

HasDataMut(data) == TRUE

\* any(data[section] for section in data)
HasData(data) == \E c \in DOMAIN data : data[c] # << >>

\* os.path.join(base_dir, year, f"{quarter}-{year}.md")
FilePath(year, quarter) ==
  <<"contributions", year, quarter \o <<"-">> \o year \o <<".", "m", "d">>>>

\* The file system and console as write_markdown_files leaves them.
\*   files: path -> content; writes: the paths opened for writing, in order;
\*   skipped: the keys reported as empty quarters; dirs: directories made.
NoOutput == [files |-> << >>, writes |-> << >>, skipped |-> << >>, dirs |-> {}]

\* with open(file_path, "w") as f: f.write(markdown_content)
WriteFile(out, file_path, doc) ==
  IF doc.raised THEN [raised |-> TRUE, out |-> out]
  ELSE [raised |-> FALSE,
        out |-> [out EXCEPT !.files = (file_path :> doc.lines) @@ @,
                            !.writes = Append(@, file_path)]]

\* Lines 157-196 for one entry, year and quarter being the parts of its key.
WriteEntry(out, key, data, year, quarter) ==
  IF ~HasData(data)
  THEN [raised |-> FALSE,
        out |-> [out EXCEPT !.dirs = @ \cup {<<"contributions", year>>},
                            !.skipped = Append(@, key)]]
  ELSE WriteFile([out EXCEPT !.dirs = @ \cup {<<"contributions", year>>}],
                 FilePath(year, quarter), RenderBucket(quarter, year, data))

\* year, quarter = key.split("-") raises unless the key has two parts.
WriteBucket(out, key, data, parts) ==
  IF Len(parts) # 2 THEN [raised |-> TRUE, out |-> out]
  ELSE WriteEntry(out, key, data, parts[1], parts[2])

RECURSIVE WriteFrom(_, _)
\* for key, data in grouped_contributions.items(), until a statement raises.
WriteFrom(buckets, r) ==
  IF buckets = << >> \/ r.raised THEN r
  ELSE WriteFrom(Tail(buckets),
                 WriteBucket(r.out, Head(buckets).key, Head(buckets).data,
                             Split(Head(buckets).key, "-")))

\* os.makedirs(base_dir, exist_ok=True), then the loop.
write_markdown_files(grouped_contributions, out) ==
  WriteFrom(grouped_contributions,
            [raised |-> FALSE,
             out |-> [out EXCEPT !.dirs = @ \cup {<<"contributions">>}]])

(* --------------------------- the search API ---------------------------- *)

\* The queries of one year, in the order fetch_contributions issues them.
QueryOrder == <<"pullRequests", "issues", "reviewedPrs", "triagedIssues">>

Years == SINCE_YEAR..(SINCE_YEAR + MaxSpan)

Queries == Years \X (1..Len(QueryOrder))

\* The statuses the API answers a search request with.
Statuses == {StatusOK, RateLimited, 404, 500}

\* The statuses the API answers a pull-request lookup with.
DetailStatuses == {StatusOK, RateLimited, 404}

\* An item of the search index is named by <<year, query, page, position>>;
\* its JSON fields follow from the name.  The month spreads the items of a
\* year over its quarters.
MonthOf(id) == (((id[3] - 1) * 5 + (id[2] - 1) * 3 + id[4] - 1) % 12) + 1

\* The body of an item: null for the items of even pages.
BodyOf(id) ==
  IF id[3] % 2 = 0 THEN None ELSE <<"f", "i", "x", "\n", "i", "t">>

\* data["items"][k] of a search response.
RawItem(id) ==
  [number |-> id,
   title |-> <<"title", id>>,
   html_url |-> <<"html_url", id>>,
   repository_url |-> <<"", "repos", "octo", <<"repo", id[2]>>>>,
   body |-> BodyOf(id),
   created_at |-> IsoTimestamp(id[1], MonthOf(id), 15, 0, 0, 0),
   updated_at |-> IsoTimestamp(id[1], MonthOf(id), 28, 23, 59, 59)]

\* pr_details.json() of the lookup of a pull request.
PrData(owner, repo_name, number) ==
  [title |-> <<"pr_title", number>>,
   html_url |-> <<"pr_html_url", number>>,
   body |-> BodyOf(number),
   merged_at |-> IsoTimestamp(number[1], MonthOf(number), 16, 12, 0, 0)]

\* The index a run of the whole program meets: every query has np pages of
\* one item each, but that the search for merged pull requests finds nothing
\* past its second page.
MainServer(np) ==
  [q \in Queries |->
     [p \in 1..np |-> IF q[2] = 1 /\ p > 2 THEN << >>
                      ELSE <<RawItem(<<q[1], q[2], p, 1>>)>>]]

\* The items a page of a query may hold.
PoolItems == {RawItem(<<SINCE_YEAR, 2, 1, k>>) : k \in 1..2}

RECURSIVE SeqsUpTo(_, _)
\* The sequences over S of length at most n.
SeqsUpTo(S, n) ==
  IF n = 0 THEN {<< >>}
  ELSE LET shorter == SeqsUpTo(S, n - 1)
       IN  shorter \cup {Append(t, x) : t \in {u \in shorter : Len(u) = n - 1}, x \in S}

PageContents == SeqsUpTo(PoolItems, MaxPerPage)

\* urlparse(url).path.split("/") of a repository url.
PathParts(repository_url) == repository_url

Last(s) == s[Len(s)]

\* "No description provided."
NoDescription ==
  <<"N", "o", " ", "d", "e", "s", "c", "r", "i", "p", "t", "i",
    "o", "n", " ", "p", "r", "o", "v", "i", "d", "e", "d", ".">>

\* A contribution record; the timestamp keys a category does not set are
\* absent (item.get gives None).
Record(title, url, repo, description, field, stamp) ==
  [title |-> title, url |-> url, repo |-> repo, description |-> description,
   merged_at |-> IF field = "merged_at" THEN stamp ELSE None,
   created_at |-> IF field = "created_at" THEN stamp ELSE None,
   reviewed_at |-> IF field = "reviewed_at" THEN stamp ELSE None,
   triaged_at |-> IF field = "triaged_at" THEN stamp ELSE None]

\* The record appended for a merged pull request whose lookup succeeded.
PrRecord(pr, pr_data) ==
  Record(pr_data.title, pr_data.html_url, Last(PathParts(pr.repository_url)),
         Or(pr_data.body, NoDescription), "merged_at", pr_data.merged_at)

\* The record appended for an item of the other three searches.
SearchRecord(type_name, item) ==
  Record(item.title, item.html_url, Last(PathParts(item.repository_url)),
         Or(item.body, NoDescription), DateField(type_name),
         IF type_name = "issues" THEN item.created_at ELSE item.updated_at)

SearchRecords(type_name, items) ==
  [i \in 1..Len(items) |-> SearchRecord(type_name, items[i])]

(* ------------------------------- state --------------------------------- *)

VARIABLES
  pc,            \* the statement the program is at
  token,         \* whether GITHUB_TOKEN is set
  current_year,  \* datetime.datetime.now().year
  server,        \* the search index: query -> its pages
  year,          \* the loop variable of fetch_contributions
  query,         \* the index in QueryOrder of the search being fetched
  page,          \* get_all_pages: page
  results,       \* get_all_pages: results
  reqPage,       \* the page number of the last search request sent (0: none)
  response,      \* get_all_pages: response (status_code 0: None)
  seen403,       \* whether the current get_all_pages call met a 403
  prs,           \* the merged pull requests being looked up
  idx,           \* the position in prs of the loop at line 69
  pr_details,    \* the status of the last lookup
  lookups,       \* the lookups answered so far, and whether with 200
  contributions, \* fetch_contributions: contributions
  grouped,       \* main: grouped
  groupRaised,   \* whether group_contributions_by_quarter raised
  out,           \* files, directories and console notes of the writer
  exc,           \* the exception main's handler caught ("" : none)
  exitCode       \* the exit code (-1: still running)

vars ==
  <<pc, token, current_year, server, year, query, page, results, reqPage,
    response, seen403, prs, idx, pr_details, lookups, contributions, grouped,
    groupRaised, out, exc, exitCode>>

fetchVars == <<page, results, reqPage, response, seen403>>
lookupVars == <<prs, idx, pr_details, lookups>>
envVars == <<token, current_year, server>>
tailVars == <<grouped, groupRaised, out, exc, exitCode>>

NoResponse == [status_code |-> 0, items |-> << >>, next |-> FALSE]

NoContributions ==
  [pullRequests |-> << >>, issues |-> << >>, triagedIssues |-> << >>,
   reviewedPrs |-> << >>]

\* The state a run starts in, but for the environment and the position.
Fresh ==
  /\ year = SINCE_YEAR
  /\ page = 1
  /\ results = << >>
  /\ reqPage = 0
  /\ response = NoResponse
  /\ seen403 = FALSE
  /\ prs = << >>
  /\ idx = 1
  /\ pr_details = 0
  /\ lookups = << >>
  /\ groupRaised = FALSE
  /\ out = NoOutput
  /\ exc = ""
  /\ exitCode = -1

\* A run of the whole program.
Init ==
  /\ pc = "start"
  /\ token \in BOOLEAN
  /\ current_year \in Years
  /\ server = MainServer(MaxPages)
  /\ query = 1
  /\ contributions = NoContributions
  /\ grouped = << >>
  /\ Fresh

(* ---------------------------- get_all_pages ---------------------------- *)

Pages == server[<<year, query>>]

\* data["items"] of page p of the current query.
PageItems(p) == IF p \in 1..Len(Pages) THEN Pages[p] ELSE << >>

\* "next" in response.links for page p of the current query.
HasNext(p) == p < Len(Pages)

\* results = []; page = 1 and the first pass of `while True`.
Call(q) ==
  /\ query' = q
  /\ page' = 1
  /\ results' = << >>
  /\ reqPage' = 0
  /\ response' = NoResponse
  /\ seen403' = FALSE
  /\ pc' = "get"

\* session.get(f"...&per_page=100&page={page}")
Request ==
  /\ pc = "get"
  /\ reqPage' = page
  /\ response' = NoResponse
  /\ pc' = "await"
  /\ UNCHANGED <<envVars, year, query, page, results, seen403, lookupVars,
                 contributions, tailVars>>

\* The API answers the request for page reqPage.
Respond ==
  /\ pc = "await"
  /\ \E s \in Statuses :
       /\ response' = IF s = StatusOK
                      THEN [status_code |-> s, items |-> PageItems(reqPage),
                            next |-> HasNext(reqPage)]
                      ELSE [status_code |-> s, items |-> << >>, next |-> FALSE]
       /\ seen403' = (seen403 \/ s = RateLimited)
  /\ pc' = "resp"
  /\ UNCHANGED <<envVars, year, query, page, results, reqPage, lookupVars,
                 contributions, tailVars>>

\* response.raise_for_status()
RaisesForStatus(status_code) == status_code >= 400 /\ status_code < 600

IsRateLimitMut(status_code) == status_code >= 400

IsRateLimit429(status_code) == status_code = 429

\* if response.status_code == 403
IsRateLimit(status_code) == status_code = RateLimited

NextPageMut(p) == p + 2

\* page += 1
NextPage(p) == p + 1

PageAfterRetryMut(p) == p + 1

\* continue  # Retry the same page
PageAfterRetry(p) == p

\* Lines 50-64: the rest of the try block, or the except clause.
HandleResponse ==
  /\ pc = "resp"
  /\ IF ~RaisesForStatus(response.status_code)
     THEN /\ results' = results \o response.items
          /\ IF response.next
             THEN page' = NextPage(page) /\ pc' = "get"
             ELSE page' = page /\ pc' = "ret"
     ELSE IF IsRateLimit(response.status_code)
     THEN /\ pc' = "sleep"
          /\ UNCHANGED <<page, results>>
     ELSE /\ pc' = "raise"
          /\ UNCHANGED <<page, results>>
  /\ UNCHANGED <<envVars, year, query, reqPage, response, seen403, lookupVars,
                 contributions, tailVars>>

\* time.sleep(60); continue
Sleep ==
  /\ pc = "sleep"
  /\ page' = PageAfterRetry(page)
  /\ pc' = "get"
  /\ UNCHANGED <<envVars, year, query, results, reqPage, response, seen403,
                 lookupVars, contributions, tailVars>>

\* One call of get_all_pages, from its first request to its return or raise.
FetchNext == Request \/ Respond \/ HandleResponse \/ Sleep

\* A call of get_all_pages on any index of at most MaxPages pages.
FetchInit ==
  /\ pc = "get"
  /\ token = TRUE
  /\ current_year = SINCE_YEAR
  /\ \E ps \in SeqsUpTo(PageContents, MaxPages) \ {<< >>} :
       server = [q \in Queries |-> IF q = <<SINCE_YEAR, 2>> THEN ps ELSE <<<< >>>>]
  /\ query = 2
  /\ contributions = NoContributions
  /\ grouped = << >>
  /\ Fresh

FetchSpec == FetchInit /\ [][FetchNext]_vars

(* -------------------------- fetch_contributions ------------------------ *)

\* Lines 15-34: the token check and the empty contributions.
Start ==
  /\ pc = "start"
  /\ IF token
     THEN pc' = "year_loop" /\ exc' = exc
     ELSE pc' = "except" /\ exc' = "ValueError"
  /\ UNCHANGED <<envVars, year, query, fetchVars, lookupVars, contributions,
                 grouped, groupRaised, out, exitCode>>

\* for year in range(SINCE_YEAR, current_year + 1): the search for merged
\* pull requests begins, or the loop ends and contributions is returned.
YearLoop ==
  /\ pc = "year_loop"
  /\ IF year <= current_year
     THEN Call(1)
     ELSE pc' = "group" /\ UNCHANGED <<query, fetchVars>>
  /\ UNCHANGED <<envVars, year, lookupVars, contributions, tailVars>>

\* raise err leaves get_all_pages, fetch_contributions and main's try block.
RaiseHTTPError ==
  /\ pc = "raise"
  /\ pc' = "except"
  /\ exc' = "HTTPError"
  /\ UNCHANGED <<envVars, year, query, fetchVars, lookupVars, contributions,
                 grouped, groupRaised, out, exitCode>>

\* prs = get_all_pages(...)
ReturnPrs ==
  /\ pc = "ret"
  /\ QueryOrder[query] = "pullRequests"
  /\ prs' = results
  /\ idx' = 1
  /\ pc' = "pr_loop"
  /\ UNCHANGED <<envVars, year, query, fetchVars, pr_details, lookups,
                 contributions, tailVars>>

\* for pr in prs: the lookup of the next pull request is sent, or the loop
\* ends and the search for created issues begins.
PrLoop ==
  /\ pc = "pr_loop"
  /\ IF idx <= Len(prs)
     THEN pc' = "await_detail" /\ UNCHANGED <<query, fetchVars>>
     ELSE Call(2)
  /\ UNCHANGED <<envVars, year, lookupVars, contributions, tailVars>>

\* The API answers the lookup.
RespondDetail ==
  /\ pc = "await_detail"
  /\ \E s \in DetailStatuses :
       /\ pr_details' = s
       /\ lookups' = Append(lookups, [number |-> prs[idx].number, ok |-> s = StatusOK])
  /\ pc' = "pr_resp"
  /\ UNCHANGED <<envVars, year, query, fetchVars, prs, idx, contributions,
                 tailVars>>

DetailOKMut(status_code) == status_code # 404

\* if pr_details.status_code == 200
DetailOK(status_code) == status_code = StatusOK

\* Lines 75-85: the record is appended, or the diagnostic is printed.
HandleDetail ==
  /\ pc = "pr_resp"
  /\ LET pr == prs[idx]
         repo_parts == PathParts(pr.repository_url)
         owner == repo_parts[Len(repo_parts) - 1]
         repo_name == repo_parts[Len(repo_parts)]
     IN  contributions' =
           IF DetailOK(pr_details)
           THEN [contributions EXCEPT
                   !.pullRequests =
                      Append(@, PrRecord(pr, PrData(owner, repo_name, pr.number)))]
           ELSE contributions
  /\ idx' = idx + 1
  /\ pc' = "pr_loop"
  /\ UNCHANGED <<envVars, year, query, fetchVars, prs, pr_details, lookups,
                 tailVars>>

\* Lines 88-117: the records of a returned search are appended and the next
\* search of the year begins; after the last one the next year begins.
ReturnSearch ==
  /\ pc = "ret"
  /\ QueryOrder[query] # "pullRequests"
  /\ contributions' =
       [contributions EXCEPT
          ![QueryOrder[query]] = @ \o SearchRecords(QueryOrder[query], results)]
  /\ IF query < Len(QueryOrder)
     THEN Call(query + 1) /\ year' = year
     ELSE /\ year' = year + 1
          /\ pc' = "year_loop"
          /\ UNCHANGED <<query, fetchVars>>
  /\ UNCHANGED <<envVars, lookupVars, tailVars>>

(* --------------------------------- main -------------------------------- *)

\* grouped = group_contributions_by_quarter(contributions)
GroupContributions ==
  /\ pc = "group"
  /\ LET r == group_contributions_by_quarter(contributions)
     IN  /\ groupRaised' = r.raised
         /\ IF r.raised
            THEN pc' = "except" /\ exc' = "ValueError" /\ grouped' = grouped
            ELSE pc' = "write" /\ exc' = exc /\ grouped' = r.grouped
  /\ UNCHANGED <<envVars, year, query, fetchVars, lookupVars, contributions,
                 out, exitCode>>

\* write_markdown_files(grouped)
WriteMarkdownFiles ==
  /\ pc = "write"
  /\ LET r == write_markdown_files(grouped, out)
     IN  /\ out' = r.out
         /\ IF r.raised
            THEN pc' = "except" /\ exc' = "Exception"
            ELSE pc' = "completed" /\ exc' = exc
  /\ UNCHANGED <<envVars, year, query, fetchVars, lookupVars, contributions,
                 grouped, groupRaised, exitCode>>

\* print("Contributions update completed successfully."); the process ends.
Complete ==
  /\ pc = "completed"
  /\ pc' = "exited"
  /\ exitCode' = 0
  /\ UNCHANGED <<envVars, year, query, fetchVars, lookupVars, contributions,
                 grouped, groupRaised, out, exc>>

\* except Exception as e: print(...); exit(1)
HandleException ==
  /\ pc = "except"
  /\ pc' = "exited"
  /\ exitCode' = 1
  /\ UNCHANGED <<envVars, year, query, fetchVars, lookupVars, contributions,
                 grouped, groupRaised, out, exc>>

Next ==
  \/ Start
  \/ YearLoop
  \/ Request
  \/ Respond
  \/ HandleResponse
  \/ Sleep
  \/ RaiseHTTPError
  \/ ReturnPrs
  \/ PrLoop
  \/ RespondDetail
  \/ HandleDetail
  \/ ReturnSearch
  \/ GroupContributions
  \/ WriteMarkdownFiles
  \/ Complete
  \/ HandleException

Spec == Init /\ [][Next]_vars

(* ------------- get_all_pages under a fair API and scheduler ------------ *)

\* The API answers with a status other than 403.
RespondNot403 == Respond /\ response'.status_code # RateLimited

\* The program runs on, and no request is answered 403 for ever.
FairFetchSpec ==
  /\ FetchInit
  /\ [][FetchNext]_vars
  /\ WF_vars(Request)
  /\ WF_vars(HandleResponse)
  /\ WF_vars(Sleep)
  /\ SF_vars(RespondNot403)

(* ------------- main from the grouping on, for any contributions -------- *)

\* Timestamps a record may carry: the API's form, in several quarters; a
\* form without zero padding; none; a month 13; a date without a time.
StampPool ==
  { IsoTimestamp(2022, 4, 15, 0, 0, 0),
    IsoTimestamp(2022, 1, 1, 0, 0, 0),
    IsoTimestamp(2022, 12, 31, 23, 59, 59),
    IsoTimestamp(2022, 6, 30, 12, 30, 0),
    <<"2", "0", "2", "3", "-", "7", "-", "4", "T", "1", ":", "2", ":", "3", "Z">>,
    None,
    IsoTimestamp(2022, 13, 1, 0, 0, 0),
    SubSeq(IsoTimestamp(2022, 4, 15, 0, 0, 0), 1, 10) }

\* A record of category type_name with the given timestamp and description.
SampleRecord(type_name, stamp, description) ==
  Record("title", "url", "repo", description, DateField(type_name), stamp)

CategorySet == {Categories[i] : i \in 1..Len(Categories)}

RECURSIVE Collect(_, _)
\* The contributions that appending each [type_name, record] in turn builds.
Collect(placed, acc) ==
  IF placed = << >> THEN acc
  ELSE Collect(Tail(placed),
               [acc EXCEPT ![Head(placed).type_name] = Append(@, Head(placed).record)])

GroupInputs ==
  { Collect(placed, NoContributions) :
      placed \in SeqsUpTo({[type_name |-> c, record |-> SampleRecord(c, t, NoDescription)] :
                             c \in CategorySet, t \in StampPool},
                          MaxRecords) }

QuietEnv ==
  /\ token = TRUE
  /\ current_year = SINCE_YEAR
  /\ server = MainServer(1)
  /\ query = 1

GroupInit ==
  /\ pc = "group"
  /\ QuietEnv
  /\ contributions \in GroupInputs
  /\ grouped = << >>
  /\ Fresh

GroupNext == GroupContributions \/ WriteMarkdownFiles \/ Complete \/ HandleException

GroupSpec == GroupInit /\ [][GroupNext]_vars

(* ------------- write_markdown_files for any grouped mapping ------------ *)

\* The quarters a mapping may hold, each with a timestamp that falls in it.
KeyPool ==
  << [key |-> QuarterKey(2022, 4), stamp |-> IsoTimestamp(2022, 4, 15, 0, 0, 0)],
     [key |-> QuarterKey(2022, 12), stamp |-> IsoTimestamp(2022, 12, 31, 23, 59, 59)],
     [key |-> QuarterKey(2023, 1), stamp |-> IsoTimestamp(2023, 1, 1, 0, 0, 0)] >>

\* A description of n characters with a newline at each position of nl.
Description(n, nl) ==
  [i \in 1..n |-> IF i \in nl THEN "\n" ELSE IF i % 2 = 0 THEN "a" ELSE "b"]

\* Descriptions of every length up to MaxOver past the limit.
LongDescriptions ==
  { Description(n, nl) : n \in 1..(DescLimit + MaxOver),
                         nl \in SUBSET {1, DescLimit, DescLimit + 1} }

ShortDescriptions == {NoDescription, <<"a", "\n", "b">>}

RECURSIVE Fill(_, _)
\* The mapping that appending each placed record to its bucket builds.
Fill(placed, buckets) ==
  IF placed = << >> THEN buckets
  ELSE Fill(Tail(placed),
            [buckets EXCEPT ![Head(placed).bucket].data[Head(placed).type_name] =
               Append(@, SampleRecord(Head(placed).type_name,
                                      KeyPool[Head(placed).bucket].stamp,
                                      Head(placed).description))])

IsPlaced(nb, placement) == placement.bucket <= nb

\* nb buckets, empty but for the records placed in them.
Mapping(nb, placed) ==
  Fill(SelectSeq(placed, LAMBDA x : IsPlaced(nb, x)),
       [b \in 1..nb |-> [key |-> KeyPool[b].key, data |-> EmptyBucket]])

WriteInputs ==
  { Mapping(nb, placed) :
      nb \in 0..Len(KeyPool),
      placed \in SeqsUpTo({[bucket |-> b, type_name |-> c, description |-> d] :
                             b \in 1..Len(KeyPool), c \in CategorySet,
                             d \in ShortDescriptions},
                          MaxRecords) }
  \cup
  { Mapping(1, <<[bucket |-> 1, type_name |-> c, description |-> d]>>) :
      c \in {"issues"}, d \in LongDescriptions }

WriteInit ==
  /\ pc = "write"
  /\ QuietEnv
  /\ contributions = NoContributions
  /\ grouped \in WriteInputs
  /\ Fresh

WriteNext == WriteMarkdownFiles \/ Complete

WriteSpec == WriteInit /\ [][WriteNext]_vars

(* ======================= properties of get_all_pages =================== *)

RECURSIVE Flatten(_)
\* The items of a sequence of pages, in page order.
Flatten(pages) ==
  IF pages = << >> THEN << >> ELSE Head(pages) \o Flatten(Tail(pages))

RECURSIVE SumLen(_)
SumLen(pages) ==
  IF pages = << >> THEN 0 ELSE Len(Head(pages)) + SumLen(Tail(pages))

\* The last page of the current query: the first whose response has no
\* "next" link.
LastPage == Len(Pages)

IsRequest == pc = "get" /\ pc' = "await"

\* C1: when every response is successful, get_all_pages requests pages
\* 1, 2, ..., n in that order, n being the first page without a "next" link,
\* requests nothing after page n, and returns the items of pages 1..n
\* concatenated in page order, as many as the pages hold together.
C1_PagesInOrder ==
  /\ [](pc = "ret" /\ ~seen403 =>
          /\ results = Flatten(Pages)
          /\ Len(results) = SumLen(Pages)
          /\ reqPage = LastPage
          /\ page = LastPage)
  /\ [][IsRequest /\ ~seen403 => reqPage' = reqPage + 1 /\ reqPage' <= LastPage]_vars
  /\ [][pc = "resp" /\ response.status_code = StatusOK /\ ~response.next
          => pc' = "ret"]_vars

C1_Witness ==
  /\ pc = "ret"
  /\ ~seen403
  /\ LastPage >= 2
  /\ Len(results) >= 2
  /\ results[1] # results[2]

\* C2: a 403 answer to the request for page p leaves page and results as
\* they were, the next request is again for page p, and the items returned
\* after any number of 403 answers are those of pages 1..n, each page once.
C2_RetrySamePage ==
  /\ [][pc = "resp" /\ response.status_code = RateLimited
          => page' = page /\ results' = results /\ pc' = "sleep"]_vars
  /\ [][pc = "sleep" => page' = page /\ results' = results /\ pc' = "get"]_vars
  /\ [][IsRequest /\ response.status_code = RateLimited => reqPage' = reqPage]_vars
  /\ [](pc = "ret" /\ seen403 => results = Flatten(Pages) /\ reqPage = LastPage)

C2_Witness ==
  /\ pc = "ret"
  /\ seen403
  /\ LastPage >= 2
  /\ Len(results) >= 2
  /\ results[1] # results[2]

Terminated == pc \in {"ret", "raise"}

\* C9: a 403 answer never makes get_all_pages return or raise, it sleeps and
\* requests again, however often; and when no request is answered 403 for
\* ever, get_all_pages ends (it returns, or raises on another error).
C9_RetryUntilAnswered ==
  /\ [][pc = "resp" /\ response.status_code = RateLimited => pc' = "sleep"]_vars
  /\ [][pc = "sleep" => pc' = "get"]_vars
  /\ [][pc = "get" /\ response.status_code = RateLimited => ~Terminated']_vars
  /\ <>Terminated

C9_Witness ==
  /\ pc = "ret"
  /\ seen403
  /\ reqPage = LastPage
  /\ LastPage = MaxPages

(* ==================== properties of fetch_contributions ================ *)

Failed == response.status_code \notin {0, StatusOK, RateLimited} /\ pc # "resp"

\* C3: once a search request is answered with an error status other than
\* 403, no further request is sent, the error reaches main's handler, the
\* run ends with exit code 1, and nothing is grouped or written.
C3_ErrorAborts ==
  Failed =>
    /\ pc \in {"raise", "except", "exited"}
    /\ pc \in {"except", "exited"} => exc = "HTTPError"
    /\ pc = "exited" => exitCode = 1
    /\ grouped = << >>
    /\ out = NoOutput

C3_Witness ==
  /\ Failed
  /\ pc = "exited"
  /\ exitCode = 1
  /\ year > SINCE_YEAR
  /\ contributions.pullRequests # << >>
  /\ contributions.issues # << >>

IsOK(lookup) == lookup.ok

\* The record a merged pull request yields.
PrRecordOf(number) ==
  PrRecord(RawItem(number), PrData("octo", <<"repo", number[2]>>, number))

RECURSIVE SearchItems(_, _)
\* The items the search q finds in the years from y to current_year.
SearchItems(q, y) ==
  IF y > current_year THEN << >>
  ELSE Flatten(server[<<y, q>>]) \o SearchItems(q, y + 1)

Collected == pc \in {"group", "write", "completed"} \/ (pc = "exited" /\ exitCode = 0)

\* C6: a merged pull request whose lookup is answered 200 yields exactly one
\* record, one answered otherwise (403 included) yields none and is looked up
\* once only; no lookup raises, and the collection goes on through the
\* remaining pull requests, searches and years.  (handled: the lookups whose
\* answer lines 75-85 have dealt with.)
C6_LookupFailureSkips ==
  LET handled == IF pc = "pr_resp" THEN SubSeq(lookups, 1, Len(lookups) - 1)
                 ELSE lookups
      ok == SelectSeq(handled, IsOK)
  IN  /\ contributions.pullRequests = [i \in 1..Len(ok) |-> PrRecordOf(ok[i].number)]
      /\ exc = "HTTPError" => Failed
      /\ exc = "ValueError" => ~token
      /\ exc \in {"", "HTTPError", "ValueError"}
      /\ Collected =>
           /\ [i \in 1..Len(lookups) |-> RawItem(lookups[i].number)] = SearchItems(1, SINCE_YEAR)
           /\ \A q \in 2..Len(QueryOrder) :
                contributions[QueryOrder[q]] =
                  SearchRecords(QueryOrder[q], SearchItems(q, SINCE_YEAR))

C6_Witness ==
  /\ pc = "exited"
  /\ exitCode = 0
  /\ current_year > SINCE_YEAR
  /\ Len(lookups) >= 4
  /\ ~lookups[1].ok
  /\ lookups[2].ok
  /\ ~lookups[Len(lookups)].ok
  /\ pr_details = RateLimited
  /\ Len(contributions.pullRequests) = Len(lookups) - 2

(* ============ properties of group_contributions_by_quarter ============= *)

Absent(item) == ~Truthy(DateStr(item))

WellFormed(item) == Truthy(DateStr(item)) /\ Strptime(DateStr(item)).ok

Malformed(item) == Truthy(DateStr(item)) /\ ~Strptime(DateStr(item)).ok

\* The records of the input, of all categories.
InputRecords ==
  UNION {{[type_name |-> c, i |-> i] : i \in 1..Len(contributions[c])} :
           c \in CategorySet}

InputRecord(r) == contributions[r.type_name][r.i]

\* "<year>-Q<n>" with the year of the timestamp and n = ((month-1) div 3) + 1.
ExpectedKey(item) ==
  LET d == Strptime(DateStr(item))
  IN  IntToStr(d.year) \o <<"-", "Q">> \o IntToStr(((d.month - 1) \div 3) + 1)

\* The records of category c that belong in the bucket of key, in input order.
Belonging(c, key) ==
  SelectSeq(contributions[c],
            LAMBDA item : WellFormed(item) /\ ExpectedKey(item) = key)

GroupEnded == pc # "group"

GroupReturned == GroupEnded /\ ~groupRaised

\* The records the buckets hold, counted with repetition.
Grouped ==
  UNION {{[b |-> bc[1], type_name |-> bc[2], i |-> i] :
            i \in 1..Len(grouped[bc[1]].data[bc[2]])} :
           bc \in (1..Len(grouped)) \X CategorySet}

\* C4 as stated: grouping never raises; a record whose timestamp is absent
\* or malformed is in no bucket, and every other record is in one.
C4_Original ==
  GroupEnded =>
    /\ ~groupRaised
    /\ \A g \in Grouped : WellFormed(grouped[g.b].data[g.type_name][g.i])
    /\ Cardinality(Grouped) = Cardinality({r \in InputRecords : WellFormed(InputRecord(r))})

\* C4, amended: a record whose timestamp is absent (None or empty) is
\* dropped without an error, it is in no bucket and the other records are
\* grouped; a record whose timestamp is present but does not parse makes the
\* grouping raise ValueError, after which nothing is grouped or written and
\* the run ends with exit code 1.
C4_AbsentDropped ==
  GroupEnded =>
    /\ groupRaised <=> \E r \in InputRecords : Malformed(InputRecord(r))
    /\ ~groupRaised =>
         /\ \A g \in Grouped : ~Absent(grouped[g.b].data[g.type_name][g.i])
         /\ Cardinality(Grouped) =
              Cardinality({r \in InputRecords : ~Absent(InputRecord(r))})
    /\ groupRaised =>
         /\ grouped = << >>
         /\ out = NoOutput
         /\ exc = "ValueError"
         /\ pc = "exited" => exitCode = 1

C4_Witness ==
  /\ GroupReturned
  /\ grouped # << >>
  /\ \E r \in InputRecords : Absent(InputRecord(r))

Written == pc \in {"completed", "exited"} /\ exc = ""

\* C10: every bucket of the mapping the grouping returns holds a record, so
\* the writer run on it skips no quarter and writes as many files as the
\* mapping has keys.
C10_NoEmptyBucket ==
  /\ GroupReturned =>
       \A b \in 1..Len(grouped) : \E c \in CategorySet : grouped[b].data[c] # << >>
  /\ GroupReturned /\ pc \in {"completed", "exited"} =>
       /\ exc = ""
       /\ out.skipped = << >>
       /\ Len(out.writes) = Len(grouped)
       /\ Cardinality(DOMAIN out.files) =
            Cardinality({grouped[b].key : b \in 1..Len(grouped)})

C10_Witness ==
  /\ GroupReturned
  /\ pc = "exited"
  /\ exitCode = 0
  /\ Len(grouped) >= 2
  /\ Len(out.writes) >= 2

(* ================= properties of write_markdown_files ================== *)

\* contributions/<year>/Q<n>-<year>.md
ExpectedPath(y, n) ==
  <<"contributions", IntToStr(y),
    <<"Q">> \o IntToStr(n) \o <<"-">> \o IntToStr(y) \o <<".", "m", "d">>>>

KeyText(y, n) == IntToStr(y) \o <<"-", "Q">> \o IntToStr(n)

KeyYears == 2019..2025

\* The path of the report of the bucket keyed key.
PathOf(key) ==
  LET yn == CHOOSE yn \in KeyYears \X (1..4) : key = KeyText(yn[1], yn[2])
  IN  ExpectedPath(yn[1], yn[2])

IsEmpty(data) == \A c \in CategorySet : data[c] = << >>

Count(x, seq) == Cardinality({i \in 1..Len(seq) : seq[i] = x})

IsH2(line) == line.kind = "h2"

\* The section headings of a report, in order.
Headings(lines) ==
  LET h == SelectSeq(lines, IsH2) IN [i \in 1..Len(h) |-> h[i].cells[1]]

\* C5: a bucket whose four category lists are all empty gets no file; any
\* other bucket gets exactly one file, at contributions/<year>/Q<n>-<year>.md,
\* with the four section headings Pull Requests, Issues, Triaged Issues,
\* Reviewed PRs in this order.
C5_OneFilePerBucket ==
  Written =>
    /\ \A b \in 1..Len(grouped) :
         LET key == grouped[b].key
             path == PathOf(key)
         IN  /\ \E yn \in KeyYears \X (1..4) : key = KeyText(yn[1], yn[2])
             /\ IF IsEmpty(grouped[b].data)
                THEN path \notin DOMAIN out.files /\ Count(path, out.writes) = 0
                ELSE /\ Count(path, out.writes) = 1
                     /\ path \in DOMAIN out.files
                     /\ Headings(out.files[path]) =
                          <<"Pull Requests", "Issues", "Triaged Issues", "Reviewed PRs">>
    /\ Len(out.writes) =
         Cardinality({b \in 1..Len(grouped) : ~IsEmpty(grouped[b].data)})

C5_Witness ==
  /\ Written
  /\ \E a, b \in 1..Len(grouped) :
       /\ IsEmpty(grouped[a].data)
       /\ ~IsEmpty(grouped[b].data)
       /\ grouped[b].data.reviewedPrs # << >>
  /\ out.skipped # << >>
  /\ out.writes # << >>

\* The index in lines of the k-th section heading.
HeadingAt(lines, k) ==
  CHOOSE i \in 1..Len(lines) :
    IsH2(lines[i]) /\ Cardinality({j \in 1..i : IsH2(lines[j])}) = k

IsRow(line) == line.kind = "row"

\* The table rows of the k-th section of a report.
SectionRows(lines, k) ==
  LET from == HeadingAt(lines, k)
      to == IF k < Cardinality({j \in 1..Len(lines) : IsH2(lines[j])})
            THEN HeadingAt(lines, k + 1) - 1
            ELSE Len(lines)
  IN  SelectSeq(SubSeq(lines, from, to), IsRow)

Spaced(c) == IF c = "\n" THEN " " ELSE c

\* cell is what the claim says the description raw is rendered as.
RenderedAsClaimed(raw, cell) ==
  IF Len(raw) > 100
  THEN /\ Len(cell) = 103
       /\ \A j \in 1..100 : cell[j] = Spaced(raw[j])
       /\ \A j \in 101..103 : cell[j] = "."
  ELSE /\ Len(cell) = Len(raw)
       /\ \A j \in 1..Len(raw) : cell[j] = Spaced(raw[j])

\* C8: in every table row written, the description is, for a raw description
\* of more than 100 characters, its first 100 characters with newlines
\* replaced by spaces followed by "...", 103 characters in all; otherwise the
\* raw description with every newline replaced by a space.
C8_DescriptionTruncated ==
  Written =>
    \A b \in 1..Len(grouped) :
      ~IsEmpty(grouped[b].data) =>
        \A k \in 1..Len(Sections) :
          LET items == grouped[b].data[Sections[k].section]
              rows == SectionRows(out.files[PathOf(grouped[b].key)], k)
          IN  /\ Len(rows) = Len(items)
              /\ \A i \in 1..Len(items) :
                   RenderedAsClaimed(items[i].description, rows[i].cells[4])

C8_Witness ==
  /\ Written
  /\ Len(grouped) = 1
  /\ Len(grouped[1].data.issues) = 1
  /\ Len(grouped[1].data.issues[1].description) = 101
  /\ grouped[1].data.issues[1].description[100] = "\n"
  /\ Len(SectionRows(out.files[PathOf(grouped[1].key)], 2)[1].cells[4]) = 103

====
